---- MODULE Spec2Model ----
(***************************************************************************)
(* Model of src/src/image_generator/server.py: the image-generator MCP     *)
(* server.  The state is the module-level table `images`, the filesystem   *)
(* the handlers touch, the notifications sent to the session, and the      *)
(* save-image handlers suspended at their one await.                       *)
(*                                                                         *)
(* Strings are sequences of tokens: "" is << >>, f"{x}.png" appends the    *)
(* token ".png", a path is its components separated by "/" tokens.         *)
(***************************************************************************)
EXTENDS Integers, Sequences, FiniteSets, TLC

\* ---------------------------------------------------------------- bounds

\* save-image calls that get past validation (each draws one uuid)
MaxSaves == 2

\* ---------------------------------------------------------------- values

\* Python's None; no modelled string is this sequence
None == <<"<None>">>

\* bool(v) of an Optional[str]
Truthy(v) == v # None /\ Len(v) > 0

\* arguments: dict | None.  A dict is a function from its keys.
NoneArgs == [isNone |-> TRUE]

EmptyDict == [k \in {} |-> << >>]

\* `not arguments`
NotArguments(arguments) == arguments = NoneArgs \/ DOMAIN arguments = {}

\* arguments.get(key) / arguments.get(key, default)
Get(arguments, key, default) ==
    IF key \in DOMAIN arguments THEN arguments[key] ELSE default

\* the dicts {key: v} for v in values, and {} when the key may be left out
Field(key, values) == {[k \in {key} |-> v] : v \in values}

OptField(key, values) == {EmptyDict} \cup Field(key, values)

\* ---------------------------------------------------------------- paths

\* os.getcwd()
Cwd == <<"/", "cwd">>

IMAGES_DIR == <<"generated_images">>

\* Path.is_absolute()
IsAbsolute(p) == Len(p) > 0 /\ p[1] = "/"

\* Path.absolute(): an absolute path is kept, a relative one is put under Cwd
Absolute(p) == IF IsAbsolute(p) THEN p ELSE Cwd \o <<"/">> \o p

\* save_dir / filename
Join(dir, filename) == dir \o <<"/">> \o filename

\* f"{stem}.png"
Png(stem) == stem \o <<".png">>

\* str.lstrip("/")
RECURSIVE LStrip(_)
LStrip(s) == IF Len(s) > 0 /\ Head(s) = "/" THEN LStrip(Tail(s)) ELSE s

\* the values uuid.uuid4() draws, rendered by str(), in the order drawn
UuidPool == <<"u1", "u2", "u3", "u4", "u5">>

\* uuid4 as a generator that repeats its first value
Uuid4Stuck(n) == <<UuidPool[1]>>

\* str(uuid.uuid4()): the n-th value drawn
Uuid4(n) == <<UuidPool[n]>>

\* directories mkdir(parents=True) cannot create (permission denied)
Uncreatable == {<<"/", "root", "out">>}

\* ---------------------------------------------------------------- state

VARIABLES
    images,      \* the module-level dict: image id -> metadata dict
    files,       \* the filesystem's regular files: absolute path -> bytes
    dirs,        \* the filesystem's directories (absolute paths)
    drawn,       \* number of uuid4 values drawn so far
    clock,       \* datetime.now(), in ticks
    suspended,   \* save-image handlers waiting in send_resource_list_changed
    failed,      \* history: ids whose download raised or was answered non-200
    last         \* history: the handler step taken last, with its inputs,
                 \* the environment's answer, its side effects and its result

vars == <<images, files, dirs, drawn, clock, suspended, failed, last>>

\* ---------------------------------------------------------------- filesystem

\* the directory part of a path: what precedes its last "/"
Parent(path) ==
    LET slashes == {i \in 1..Len(path) : path[i] = "/"}
        cut == CHOOSE i \in slashes : \A j \in slashes : j <= i
    IN  IF slashes = {} THEN << >> ELSE SubSeq(path, 1, cut - 1)

\* Path.exists() / os.path.exists()
Exists(fs, path) == Absolute(path) \in DOMAIN fs

\* Path.mkdir(parents=True, exist_ok=True): TRUE when it does not raise
MkdirOk(ds, dir) == Absolute(dir) \in ds \/ Absolute(dir) \notin Uncreatable

Mkdir(ds, dir) == ds \cup {Absolute(dir)}

\* open(path, "wb"): TRUE when it does not raise (the directory must exist)
OpenOk(ds, path) == Absolute(Parent(path)) \in ds

\* f.write(content) on a file opened "wb": the file is created or replaced
WriteFile(fs, path, content) ==
    [p \in DOMAIN fs \cup {Absolute(path)} |->
        IF p = Absolute(path) THEN content ELSE fs[p]]

\* os.remove(path), done by something outside the server
RemoveFile(fs, path) == [p \in DOMAIN fs \ {path} |-> fs[p]]

\* ---------------------------------------------------------------- results

\* `raise ValueError(text)` out of the handler, after the given side effects
Raise(op, input, answer, text, effects) ==
    [op |-> op, input |-> input, answer |-> answer, end |-> "raise",
     text |-> text, effects |-> effects, detail |-> << >>]

\* `return [TextContent(text), ...]` after the given side effects
Return(op, input, answer, text, effects, detail) ==
    [op |-> op, input |-> input, answer |-> answer, end |-> "return",
     text |-> text, effects |-> effects, detail |-> detail]

\* the handler is suspended in an `await` after the given side effects
Await(op, input, answer, effects, detail) ==
    [op |-> op, input |-> input, answer |-> answer, end |-> "await",
     text |-> "", effects |-> effects, detail |-> detail]

\* no request went out, so nothing answered
NoAnswer == [raised |-> FALSE]

Init ==
    /\ images = EmptyDict
    /\ files = EmptyDict
    /\ dirs = {Absolute(IMAGES_DIR)}
    /\ drawn = 0
    /\ clock = 0
    /\ suspended = {}
    /\ failed = {}
    /\ last = Return("start", EmptyDict, NoAnswer, "", << >>, << >>)

\* ---------------------------------------------------------------- save-image

URL == <<"https://example/img.png">>

PROMPT == <<"a red fox in snow">>

\* a second image and its prompt, to tell one call's record from another's
URL2 == <<"https://example/bird.png">>

PROMPT2 == <<"a blue bird at dawn">>

\* the body the server at image_url answers a GET with
Body(image_url) == <<"png of">> \o image_url

\* requests.get(image_url): it raises, or answers with a status and a body
Responses(image_url) ==
    {[raised |-> TRUE, status_code |-> 0, content |-> << >>],
     [raised |-> FALSE, status_code |-> 404, content |-> << >>],
     [raised |-> FALSE, status_code |-> 200, content |-> Body(image_url)]}

\* the status check left out: any answer is taken for the image
DownloadedAnyStatus(response) == TRUE

\* `if response.status_code == 200`
Downloaded(response) == response.status_code = 200

\* the arguments a caller may send to save-image: each required key left
\* out, empty and given, and each way of naming the place to save to (a key
\* left out, empty, a directory that can be made, one that cannot, a filename)
SaveArguments ==
    {NoneArgs, EmptyDict} \cup
    Field("image_url", {URL}) \cup
    Field("prompt", {PROMPT}) \cup
    {u @@ p @@ t @@ c :
        u \in Field("image_url", {<< >>}),
        p \in Field("prompt", {PROMPT}),
        t \in Field("target_directory", {<<"out">>}),
        c \in Field("custom_filename", {<<"fox">>})} \cup
    {u @@ p : u \in Field("image_url", {URL}), p \in Field("prompt", {<< >>})} \cup
    {u @@ p @@ t @@ c :
        u \in Field("image_url", {URL}),
        p \in Field("prompt", {PROMPT}),
        t \in Field("target_directory", {<<"out">>, <<"/", "root", "out">>}),
        c \in OptField("custom_filename", {<<"fox">>})} \cup
    {u @@ p @@ c :
        u \in Field("image_url", {URL}),
        p \in Field("prompt", {PROMPT}),
        c \in Field("custom_filename", {<<"fox">>})} \cup
    {u @@ p @@ t @@ c :
        u \in Field("image_url", {URL2}),
        p \in Field("prompt", {PROMPT2}),
        t \in Field("target_directory", {<< >>}),
        c \in Field("custom_filename", {<< >>})}

\* the checks of save-image without the one on prompt
SaveValidationUrlOnly(arguments) ==
    IF NotArguments(arguments) THEN "Missing arguments"
    ELSE IF ~Truthy(Get(arguments, "image_url", None))
    THEN "Missing image_url or prompt"
    ELSE ""

\* the checks save-image makes before its try block: the text of the
\* ValueError raised, or "" when the arguments pass
SaveValidation(arguments) ==
    IF NotArguments(arguments) THEN "Missing arguments"
    ELSE IF \/ ~Truthy(Get(arguments, "image_url", None))
            \/ ~Truthy(Get(arguments, "prompt", None))
    THEN "Missing image_url or prompt"
    ELSE ""

\* metadata = {"id": ..., "prompt": ..., "url": ..., "created_at": ...}
NewMetadata(image_id, prompt, image_url, now) ==
    [id |-> image_id, prompt |-> prompt, url |-> image_url, created_at |-> now]

\* metadata[key] = value
SetKey(metadata, key, value) ==
    [k \in DOMAIN metadata \cup {key} |->
        IF k = key THEN value ELSE metadata[k]]

\* "Determine the save directory": save_dir is rebound to the target before
\* mkdir is tried, so it is still the target after mkdir raised and was caught
ResolveDirectory(ds, target_directory, metadata) ==
    IF ~Truthy(target_directory)
    THEN [save_dir |-> IMAGES_DIR, dirs |-> ds, metadata |-> metadata,
          effects |-> << >>]
    ELSE IF MkdirOk(ds, target_directory)
    THEN [save_dir |-> target_directory, dirs |-> Mkdir(ds, target_directory),
          metadata |-> SetKey(metadata, "custom_directory",
                              Absolute(target_directory)),
          effects |-> <<"mkdir">>]
    ELSE [save_dir |-> target_directory, dirs |-> ds, metadata |-> metadata,
          effects |-> <<"mkdir-failed">>]

\* every image written under one fixed name, whatever the id and the arguments
ResolveFilenameFixed(custom_filename, image_id, metadata) ==
    [filename |-> Png(<<"image">>), metadata |-> metadata]

\* "Determine filename"
ResolveFilename(custom_filename, image_id, metadata) ==
    IF Truthy(custom_filename)
    THEN [filename |-> Png(custom_filename),
          metadata |-> SetKey(metadata, "custom_filename", custom_filename)]
    ELSE [filename |-> Png(image_id), metadata |-> metadata]

\* images = {image_id: metadata}: the table rebound, earlier records dropped
StoreAlone(table, image_id, metadata) == [i \in {image_id} |-> metadata]

\* images[image_id] = metadata (the dict object stored is the one filled in later)
Store(table, image_id, metadata) ==
    [i \in DOMAIN table \cup {image_id} |->
        IF i = image_id THEN metadata ELSE table[i]]

\* handle_call_tool("save-image", arguments) up to its return, its raise or
\* its await of send_resource_list_changed
SaveImage(arguments, response) ==
    IF SaveValidation(arguments) # ""
    THEN /\ last' = Raise("save-image", arguments, NoAnswer,
                          SaveValidation(arguments), << >>)
         /\ UNCHANGED <<images, files, dirs, drawn, clock, suspended, failed>>
    ELSE
    LET image_url == Get(arguments, "image_url", None)
        prompt == Get(arguments, "prompt", None)
        target_directory == Get(arguments, "target_directory", None)
        custom_filename == Get(arguments, "custom_filename", None)
        image_id == Uuid4(drawn + 1)
        metadata == NewMetadata(image_id, prompt, image_url, clock)
        d == ResolveDirectory(dirs, target_directory, metadata)
        f == ResolveFilename(custom_filename, image_id, d.metadata)
        image_path == Join(d.save_dir, f.filename)
        effects == <<"store">> \o d.effects \o <<"get">>
        detail == [image_id |-> image_id, image_path |-> image_path]
    IN
    /\ drawn < MaxSaves
    /\ drawn' = drawn + 1
    /\ clock' = clock + 1
    /\ images' = Store(images, image_id, f.metadata)
    /\ dirs' = d.dirs
    /\ failed' = IF response.raised \/ response.status_code # 200
                 THEN failed \cup {image_id} ELSE failed
    /\ IF response.raised
       THEN /\ last' = Return("save-image", arguments, response,
                              "Error saving image", effects, detail)
            /\ UNCHANGED <<files, suspended>>
       ELSE IF ~Downloaded(response)
       THEN /\ last' = Return("save-image", arguments, response,
                              "Failed to download image", effects, detail)
            /\ UNCHANGED <<files, suspended>>
       ELSE IF ~OpenOk(d.dirs, image_path)
       THEN /\ last' = Return("save-image", arguments, response,
                              "Error saving image",
                              effects \o <<"open-failed">>, detail)
            /\ UNCHANGED <<files, suspended>>
       ELSE /\ files' = WriteFile(files, image_path, response.content)
            /\ suspended' = suspended \cup
                   {[arguments |-> arguments, response |-> response,
                     effects |-> effects \o <<"write">>, detail |-> detail]}
            /\ last' = Await("save-image", arguments, response,
                             effects \o <<"write">>, detail)

\* the handler confirming the save whether or not the notification went out
SendAlwaysConfirms(h, delivered) ==
    /\ h \in suspended
    /\ suspended' = suspended \ {h}
    /\ last' = Return("save-image", h.arguments, h.response,
                      "Image saved successfully",
                      h.effects \o (IF delivered THEN <<"notify">>
                                    ELSE <<"notify-failed">>), h.detail)
    /\ UNCHANGED <<images, files, dirs, drawn, clock, failed>>

\* the resumed handler storing its record again into the table as it was
\* when the handler started, so that records stored since then are gone
SendRestoresTable(h, delivered) ==
    /\ h \in suspended
    /\ suspended' = suspended \ {h}
    /\ images' = [i \in {j \in DOMAIN images :
                           images[j].created_at
                               <= images[h.detail.image_id].created_at} |->
                     images[i]]
    /\ last' = Return("save-image", h.arguments, h.response,
                      IF delivered THEN "Image saved successfully"
                      ELSE "Error saving image",
                      h.effects \o (IF delivered THEN <<"notify">>
                                    ELSE <<"notify-failed">>), h.detail)
    /\ UNCHANGED <<files, dirs, drawn, clock, failed>>

\* the awaited send_resource_list_changed() finishes: the notification is out
\* and the handler returns its confirmation, or the send raised and the
\* handler's `except Exception` returns the error text
SendResourceListChanged(h, delivered) ==
    /\ h \in suspended
    /\ suspended' = suspended \ {h}
    /\ IF delivered
       THEN last' = Return("save-image", h.arguments, h.response,
                           "Image saved successfully",
                           h.effects \o <<"notify">>, h.detail)
       ELSE last' = Return("save-image", h.arguments, h.response,
                           "Error saving image",
                           h.effects \o <<"notify-failed">>, h.detail)
    /\ UNCHANGED <<images, files, dirs, drawn, clock, failed>>

\* ---------------------------------------------------------------- generate-image

\* what int() and float() accept
Numerals == {<<"512">>, <<"768">>, <<"50">>, <<"7.5">>}

\* int(arguments.get(key, default)) / float(...): TRUE when it does not raise
Converts(arguments, key, default) == Get(arguments, key, default) \in Numerals

\* replicate.run(...): it raises, or returns a list of urls, or something else
Outputs ==
    {[raised |-> TRUE, isList |-> FALSE, items |-> << >>],
     [raised |-> FALSE, isList |-> TRUE, items |-> <<URL>>],
     [raised |-> FALSE, isList |-> TRUE, items |-> << >>],
     [raised |-> FALSE, isList |-> FALSE, items |-> <<URL>>]}

\* `output and isinstance(output, list) and len(output) > 0`
HasImage(output) == output.isList /\ Len(output.items) > 0

\* the arguments a caller may send to generate-image: none, no prompt, an
\* empty prompt, a prompt alone, and a prompt with a number that converts
\* (to int) or does not (to int, to float)
GenerateArguments ==
    {NoneArgs, EmptyDict} \cup
    Field("prompt", {<< >>, PROMPT}) \cup
    Field("width", {<<"512">>}) \cup
    {p @@ w : p \in Field("prompt", {PROMPT}),
              w \in Field("width", {<<"wide">>})
                    \cup Field("guidance_scale", {<<"high">>})}

\* the checks of generate-image without the one on prompt
GenerateValidationNoPrompt(arguments) ==
    IF NotArguments(arguments) THEN "Missing arguments"
    ELSE IF ~ /\ Converts(arguments, "width", <<"768">>)
              /\ Converts(arguments, "height", <<"768">>)
              /\ Converts(arguments, "num_inference_steps", <<"50">>)
              /\ Converts(arguments, "guidance_scale", <<"7.5">>)
    THEN "invalid literal"
    ELSE ""

\* what generate-image does before its try block: the text of the ValueError
\* raised by its checks or by int() and float(), or "" when the call goes on
GenerateValidation(arguments) ==
    IF NotArguments(arguments) THEN "Missing arguments"
    ELSE IF ~Truthy(Get(arguments, "prompt", None)) THEN "Missing prompt"
    ELSE IF ~ /\ Converts(arguments, "width", <<"768">>)
              /\ Converts(arguments, "height", <<"768">>)
              /\ Converts(arguments, "num_inference_steps", <<"50">>)
              /\ Converts(arguments, "guidance_scale", <<"7.5">>)
    THEN "invalid literal"
    ELSE ""

\* generate-image without its `except Exception`: the failure propagates
GenerateResultPropagates(arguments, output) ==
    IF output.raised
    THEN Raise("generate-image", arguments, output, "Error generating image",
               <<"run">>)
    ELSE IF HasImage(output)
    THEN Return("generate-image", arguments, output,
                "Image generated successfully", <<"run">>, output.items[1])
    ELSE Return("generate-image", arguments, output,
                "Failed to generate image", <<"run">>, << >>)

\* the try block of generate-image, given what replicate.run did
GenerateResult(arguments, output) ==
    IF output.raised
    THEN Return("generate-image", arguments, output, "Error generating image",
                <<"run">>, << >>)
    ELSE IF HasImage(output)
    THEN Return("generate-image", arguments, output,
                "Image generated successfully", <<"run">>, output.items[1])
    ELSE Return("generate-image", arguments, output,
                "Failed to generate image", <<"run">>, << >>)

\* handle_call_tool("generate-image", arguments)
GenerateImage(arguments, output) ==
    /\ UNCHANGED <<images, files, dirs, drawn, clock, suspended, failed>>
    /\ IF GenerateValidation(arguments) # ""
       THEN last' = Raise("generate-image", arguments, NoAnswer,
                          GenerateValidation(arguments), << >>)
       ELSE last' = GenerateResult(arguments, output)

\* ---------------------------------------------------------------- list-saved-images

\* the path recomputed without regard to the record's custom_directory
ListPathDefaultDir(image_id, metadata) ==
    Join(IMAGES_DIR, IF "custom_filename" \in DOMAIN metadata
                     THEN Png(metadata["custom_filename"])
                     ELSE Png(image_id))

\* the path list-saved-images recomputes from a record
ListPath(image_id, metadata) ==
    LET save_dir == IF "custom_directory" \in DOMAIN metadata
                    THEN metadata["custom_directory"]
                    ELSE IMAGES_DIR
        filename == IF "custom_filename" \in DOMAIN metadata
                    THEN Png(metadata["custom_filename"])
                    ELSE Png(image_id)
    IN  Join(save_dir, filename)

\* one entry of the listing: text plus ImageContent, or text with the WARNING
ListEntry(fs, image_id, metadata) ==
    IF Exists(fs, ListPath(image_id, metadata))
    THEN [kind |-> "image", path |-> ListPath(image_id, metadata)]
    ELSE [kind |-> "warning", path |-> ListPath(image_id, metadata)]

\* the entries list-saved-images returns after its "Found n saved images:"
Listing(table, fs) ==
    [image_id \in DOMAIN table |-> ListEntry(fs, image_id, table[image_id])]

\* handle_call_tool("list-saved-images", arguments)
ListSavedImages(arguments) ==
    /\ UNCHANGED <<images, files, dirs, drawn, clock, suspended, failed>>
    /\ IF DOMAIN images = {}
       THEN last' = Return("list-saved-images", arguments, NoAnswer,
                           "No images have been saved yet.", << >>,
                           [count |-> 0, entries |-> EmptyDict])
       ELSE last' = Return("list-saved-images", arguments, NoAnswer, "Found",
                           << >>, [count |-> Cardinality(DOMAIN images),
                                   entries |-> Listing(images, files)])

\* handle_call_tool(name, arguments) for a name that is none of the three tools
UnknownTool(name, arguments) ==
    /\ name \notin {"generate-image", "save-image", "list-saved-images"}
    /\ last' = Raise(name, arguments, NoAnswer, "Unknown tool", << >>)
    /\ UNCHANGED <<images, files, dirs, drawn, clock, suspended, failed>>

\* ---------------------------------------------------------------- resources

\* AnyUrl(f"image://internal/{image_id}")
ImageUri(image_id) == [scheme |-> "image", path |-> <<"/">> \o image_id]

\* handle_list_resources()
ListResources ==
    /\ last' = Return("list-resources", EmptyDict, NoAnswer, "", << >>,
                      {ImageUri(image_id) : image_id \in DOMAIN images})
    /\ UNCHANGED <<images, files, dirs, drawn, clock, suspended, failed>>

\* the uris a caller may read: of every id that may be drawn, of an id that
\* never is, without a path, and of another scheme
Uris ==
    {ImageUri(Uuid4(n)) : n \in 1..MaxSaves} \cup
    {ImageUri(<<"nope">>),
     [scheme |-> "image", path |-> None],
     [scheme |-> "file", path |-> <<"/">> \o Uuid4(1)]}

\* image_path = IMAGES_DIR / f"{image_id}.png"
ReadPath(image_id) == Join(IMAGES_DIR, Png(image_id))

\* handle_read_resource(uri)
ReadResource(uri) ==
    /\ UNCHANGED <<images, files, dirs, drawn, clock, suspended, failed>>
    /\ IF uri.scheme # "image"
       THEN last' = Raise("read-resource", uri, NoAnswer,
                          "Unsupported URI scheme", << >>)
       ELSE IF /\ uri.path # None
               /\ LStrip(uri.path) \in DOMAIN images
               /\ Exists(files, ReadPath(LStrip(uri.path)))
       THEN last' = Return("read-resource", uri, NoAnswer, "bytes", <<"read">>,
                           files[Absolute(ReadPath(LStrip(uri.path)))])
       ELSE last' = Raise("read-resource", uri, NoAnswer, "Image not found",
                          << >>)

\* ---------------------------------------------------------------- environment

\* somebody deletes a saved file
Remove(path) ==
    /\ path \in DOMAIN files
    /\ files' = RemoveFile(files, path)
    /\ last' = Return("remove", path, NoAnswer, "", <<"remove">>, << >>)
    /\ UNCHANGED <<images, dirs, drawn, clock, suspended, failed>>

\* requests.get and replicate.run answer only the calls that reach them
SaveAnswers(arguments) ==
    IF SaveValidation(arguments) = ""
    THEN Responses(Get(arguments, "image_url", None))
    ELSE {NoAnswer}

GenerateAnswers(arguments) ==
    IF GenerateValidation(arguments) = "" THEN Outputs ELSE {NoAnswer}

Next ==
    \/ \E arguments \in SaveArguments :
           \E response \in SaveAnswers(arguments) :
               SaveImage(arguments, response)
    \/ \E h \in suspended, delivered \in BOOLEAN :
           SendResourceListChanged(h, delivered)
    \/ \E arguments \in GenerateArguments :
           \E output \in GenerateAnswers(arguments) :
               GenerateImage(arguments, output)
    \/ \E arguments \in {EmptyDict} : ListSavedImages(arguments)
    \/ \E arguments \in {EmptyDict} : UnknownTool("delete-image", arguments)
    \/ ListResources
    \/ \E uri \in Uris : ReadResource(uri)
    \/ \E path \in DOMAIN files : Remove(path)

Spec == Init /\ [][Next]_vars

\* ---------------------------------------------------------------- properties

\* the side effect x is among those a handler step made
Has(effects, x) == \E i \in 1..Len(effects) : effects[i] = x

\* how often the side effect x was made
Count(effects, x) == Cardinality({i \in 1..Len(effects) : effects[i] = x})

\* the arguments hold a non-empty string under the key
NonEmpty(arguments, key) ==
    /\ arguments # NoneArgs
    /\ key \in DOMAIN arguments
    /\ arguments[key] # << >>

\* save-image arguments with a non-empty image_url and a non-empty prompt
WellFormedSave(arguments) ==
    NonEmpty(arguments, "image_url") /\ NonEmpty(arguments, "prompt")

\* a step of a save-image handler that resumes it after its await
SaveResumed(l) ==
    l.op = "save-image" /\ l.end = "return" /\ Has(l.effects, "write")

\* a step that runs a save-image call from its start
SaveStarted(l) == l.op = "save-image" /\ ~SaveResumed(l)

\* the absolute path list-saved-images looks for the record's file at
RecordPath(table, image_id) == Absolute(ListPath(image_id, table[image_id]))

\* list-saved-images would report the record with its image / with the warning
Listed(table, fs, image_id) == Listing(table, fs)[image_id].kind

\* C1: every save-image call with a non-empty image_url and a non-empty prompt
\* adds exactly one record, under an id that was no key before, whatever the
\* download does (200, another status, an exception), and touches no other
\* record; resuming the call after its await adds none.
C1_SaveAddsOneFreshRecord ==
    [][(last'.op = "save-image" /\ WellFormedSave(last'.input)) =>
        IF SaveResumed(last')
        THEN images' = images
        ELSE /\ last'.end # "raise"
             /\ last'.detail.image_id \notin DOMAIN images
             /\ DOMAIN images' = DOMAIN images \cup {last'.detail.image_id}
             /\ \A i \in DOMAIN images : images'[i] = images[i]]_vars

\* C1 witness: a second record was stored by a call whose download raised
C1_Witness ==
    /\ last.op = "save-image"
    /\ last.answer.raised
    /\ Cardinality(DOMAIN images) = 2
    /\ last.detail.image_id \in DOMAIN images

\* C2: with a target_directory that mkdir cannot create and a download
\* answered 200, the bytes are written to <default-dir>/<filename> and the
\* call goes on to report the save.
C2_FallbackToDefaultDirectory ==
    [][(/\ SaveStarted(last')
        /\ WellFormedSave(last'.input)
        /\ NonEmpty(last'.input, "target_directory")
        /\ ~MkdirOk(dirs, last'.input["target_directory"])
        /\ ~last'.answer.raised
        /\ last'.answer.status_code = 200) =>
        LET filename == IF NonEmpty(last'.input, "custom_filename")
                        THEN Png(last'.input["custom_filename"])
                        ELSE Png(last'.detail.image_id)
            path == Absolute(Join(IMAGES_DIR, filename))
        IN  /\ last'.end = "await"
            /\ path \in DOMAIN files'
            /\ files'[path] = last'.answer.content]_vars

\* the id read-resource parses out of the uri path
UriId(uri) == IF uri.path = None THEN None ELSE LStrip(uri.path)

\* C3: for an image:// uri, read-resource fails with "Image not found" exactly
\* when the parsed id is no key of the table or no file is at the path derived
\* from the record's directory and filename fields; otherwise it returns the
\* bytes of that file.
C3_ReadFollowsRecordPath ==
    (last.op = "read-resource" /\ last.input.scheme = "image") =>
        LET image_id == UriId(last.input)
            absent == \/ image_id \notin DOMAIN images
                      \/ RecordPath(images, image_id) \notin DOMAIN files
        IN  IF absent
            THEN last.end = "raise" /\ last.text = "Image not found"
            ELSE /\ last.end = "return"
                 /\ last.detail = files[RecordPath(images, image_id)]

\* C4: the path list-saved-images recomputes from a record is the path
\* save-image wrote to, so a record is listed with its image once its file is
\* written and while the file is there, and with the warning once the file is
\* deleted; deleting and listing leave the table, and the count announced, as
\* they were.
C4_ListingFollowsSavedFile ==
    [][/\ (last'.op = "save-image" /\ last'.end = "await") =>
            /\ RecordPath(images', last'.detail.image_id)
                   = Absolute(last'.detail.image_path)
            /\ Listed(images', files', last'.detail.image_id) = "image"
       /\ (last'.op = "save-image" /\ last'.text = "Image saved successfully") =>
            (Listed(images', files', last'.detail.image_id) = "image"
                <=> Exists(files', last'.detail.image_path))
       /\ last'.op = "remove" =>
            /\ images' = images
            /\ \A id \in DOMAIN images :
                   Listed(images', files', id) =
                       IF RecordPath(images, id) = last'.input
                       THEN "warning" ELSE Listed(images, files, id)
       /\ last'.op = "list-saved-images" =>
            /\ images' = images
            /\ files' = files
            /\ last'.detail.count = Cardinality(DOMAIN images)
            /\ DOMAIN last'.detail.entries = DOMAIN images
            /\ \A id \in DOMAIN images :
                   last'.detail.entries[id].kind =
                       IF RecordPath(images, id) \in DOMAIN files
                       THEN "image" ELSE "warning"]_vars

\* C4 witness: the file of a record saved with a directory and a filename of
\* the caller's was deleted, and the record is now listed with the warning
C4_Witness ==
    /\ last.op = "remove"
    /\ \E id \in DOMAIN images \ failed :
           /\ {"custom_directory", "custom_filename"} \subseteq DOMAIN images[id]
           /\ RecordPath(images, id) = last.input
           /\ Listed(images, files, id) = "warning"

\* C5: a record whose download failed is listed with the warning ever after.
C5_DanglingForever ==
    \A id \in failed :
        id \in DOMAIN images /\ Listed(images, files, id) = "warning"

\* C5 as amended: a record whose download failed stays in the table as it
\* is, its call wrote no file and asked for the image once, and it is listed
\* with the warning unless another record, whose download succeeded, has the
\* same directory and filename.  (A step that changes neither the table nor
\* the files nor the failed downloads leaves all of this as it was.)
C5_DanglingUnlessPathShared ==
    [][\/ UNCHANGED <<images, files, failed>>
       \/ /\ failed \subseteq failed'
          /\ \A id \in failed' :
               /\ id \in DOMAIN images'
               /\ id \in failed => images'[id] = images[id]
               /\ id \notin failed =>
                      /\ files' = files
                      /\ suspended' = suspended
                      /\ last'.end = "return"
                      /\ Count(last'.effects, "get") = 1
               /\ Listed(images', files', id) = "image" =>
                      \E other \in DOMAIN images' \ failed' :
                          RecordPath(images', other) = RecordPath(images', id)]_vars

\* C5 witness: a listing made after a later save shows a failed record with
\* the warning
C5_Witness ==
    /\ last.op = "list-saved-images"
    /\ Cardinality(DOMAIN images) = 2
    /\ \E id \in failed :
           /\ id \in DOMAIN last.detail.entries
           /\ last.detail.entries[id].kind = "warning"
           /\ \E other \in DOMAIN images \ failed : TRUE

\* the names handle_call_tool dispatches on
ToolNames == {"generate-image", "save-image", "list-saved-images"}

\* the steps that are no call of a tool
OtherSteps == {"read-resource", "list-resources", "remove", "start"}

\* C6: the table changes only in a save-image call that passed validation:
\* every other step leaves it as it is, and no step removes a record or
\* changes a field of a record already stored.
C6_TableOnlyGrowsBySave ==
    [][/\ images' = images \/ \A id \in DOMAIN images :
            id \in DOMAIN images' /\ images'[id] = images[id]
       /\ images' # images =>
            /\ SaveStarted(last')
            /\ WellFormedSave(last'.input)
            /\ Cardinality(DOMAIN images') = Cardinality(DOMAIN images) + 1
       /\ last'.op # "save-image" => images' = images]_vars

\* C6 witness: a generate-image call succeeded while the table held a record
\* with a directory and a filename of the caller's, and the table holds it still
C6_Witness ==
    /\ last.op = "generate-image"
    /\ last.text = "Image generated successfully"
    /\ \E id \in DOMAIN images :
           {"custom_directory", "custom_filename"} \subseteq DOMAIN images[id]

\* C7: generate-image without arguments, without a prompt or with an empty
\* prompt raises its validation error, and replicate.run is not called.
C7_GenerateWithoutPromptRaises ==
    (last.op = "generate-image" /\ ~NonEmpty(last.input, "prompt")) =>
        /\ last.end = "raise"
        /\ last.text \in {"Missing arguments", "Missing prompt"}
        /\ ~Has(last.effects, "run")
        /\ last.answer = NoAnswer

\* C7 witness: a call with arguments, none of them a prompt, was refused
C7_Witness ==
    /\ last.op = "generate-image"
    /\ last.input # NoneArgs
    /\ DOMAIN last.input = {"width"}
    /\ last.end = "raise"

\* C8: once generate-image has called replicate.run it returns a text and
\* never raises: the error text when the call raised, the failure text when
\* the result is no non-empty list; the table, the files and the directories
\* are as before and no handler is left suspended by it.  A call with a prompt
\* and numbers that convert does call replicate.run.
C8_GenerateFailureIsReturned ==
    [][last'.op = "generate-image" =>
        /\ (NonEmpty(last'.input, "prompt") /\ last'.text # "invalid literal")
               => Has(last'.effects, "run")
        /\ Has(last'.effects, "run") =>
               /\ last'.end = "return"
               /\ last'.answer.raised => last'.text = "Error generating image"
               /\ (/\ ~last'.answer.raised
                   /\ ~(last'.answer.isList /\ last'.answer.items # << >>))
                      => last'.text = "Failed to generate image"
               /\ UNCHANGED <<images, files, dirs, suspended>>]_vars

\* C8 witness: replicate.run raised while the table held a record and its file
C8_Witness ==
    /\ last.op = "generate-image"
    /\ last.answer.raised
    /\ last.end = "return"
    /\ \E id \in DOMAIN images : Listed(images, files, id) = "image"

\* C9: a request that fails validation (save-image without a non-empty
\* image_url and prompt, an unknown tool name, read-resource with another
\* scheme) raises its error and does nothing else: no record, no file, no
\* directory, no download, no remote call, no notification.
C9_InvalidRequestHasNoEffect ==
    [][(\/ last'.op = "save-image" /\ ~WellFormedSave(last'.input)
        \/ last'.op \notin ToolNames \cup OtherSteps
        \/ last'.op = "read-resource" /\ last'.input.scheme # "image") =>
        /\ last'.end = "raise"
        /\ last'.text \in {"Missing arguments", "Missing image_url or prompt",
                           "Unknown tool", "Unsupported URI scheme"}
        /\ last'.effects = << >>
        /\ last'.answer = NoAnswer
        /\ UNCHANGED <<images, files, dirs, drawn, suspended, failed>>]_vars

\* C9 witness: a save-image call with an image_url and no prompt was refused
\* while the table held a record
C9_Witness ==
    /\ last.op = "save-image"
    /\ last.end = "raise"
    /\ DOMAIN last.input = {"image_url"}
    /\ DOMAIN images # {}

\* C10: a save-image call that has returned sent the notification exactly
\* when its download was answered 200 and it wrote the bytes.
C10_NotifiesExactlyWhenWritten ==
    (last.op = "save-image" /\ last.end = "return") =>
        (Has(last.effects, "notify") <=>
            (/\ ~last.answer.raised
             /\ last.answer.status_code = 200
             /\ Has(last.effects, "write")))

\* C10 as amended: the notification goes out only in a call whose download
\* was answered 200 and that wrote the bytes, and after the write; the call
\* that confirms the save has written and notified; a call that wrote and
\* whose send raised returns the error text; a call answered with another
\* status asked once, wrote nothing, notified nobody.
C10_NotifiesOnlyAfterWrite ==
    [][last'.op = "save-image" =>
        /\ Has(last'.effects, "notify") =>
               /\ ~last'.answer.raised /\ last'.answer.status_code = 200
               /\ \E i, j \in 1..Len(last'.effects) :
                      /\ i < j
                      /\ last'.effects[i] = "write"
                      /\ last'.effects[j] = "notify"
               /\ last'.text = "Image saved successfully"
        /\ last'.text = "Image saved successfully" =>
               Has(last'.effects, "write") /\ Has(last'.effects, "notify")
        /\ last'.end = "await" =>
               /\ ~Has(last'.effects, "notify")
               /\ last'.answer.status_code = 200
               /\ Exists(files', last'.detail.image_path)
               /\ files'[Absolute(last'.detail.image_path)]
                      = last'.answer.content
        /\ (/\ last'.end = "return"
            /\ Has(last'.effects, "write")
            /\ ~Has(last'.effects, "notify")) =>
               /\ Has(last'.effects, "notify-failed")
               /\ last'.text = "Error saving image"
        /\ (/\ last'.end = "return"
            /\ ~last'.answer.raised
            /\ last'.answer.status_code # 200) =>
               /\ Count(last'.effects, "get") = 1
               /\ ~Has(last'.effects, "write")
               /\ ~Has(last'.effects, "notify")
               /\ last'.text = "Failed to download image"
               /\ UNCHANGED <<files, suspended>>]_vars

\* C10 witness: a call confirmed the save after writing and notifying, and
\* its file is there
C10_Witness ==
    /\ last.op = "save-image"
    /\ last.text = "Image saved successfully"
    /\ Has(last.effects, "notify")
    /\ Exists(files, last.detail.image_path)

\* C11: two different ids in the table never resolve to one file path.
C11_DistinctRecordsDistinctPaths ==
    \A a, b \in DOMAIN images :
        a # b => RecordPath(images, a) # RecordPath(images, b)

\* C11 as amended: two different ids resolve to one file path only if at
\* least one of the two records carries a custom_filename, and a save-image
\* call writes over a file that is already there only if it was given a
\* custom_filename.  (A step that changes neither the table nor the files
\* leaves the paths as they were.)
C11_SharedPathOnlyByCustomFilename ==
    [][\/ UNCHANGED <<images, files>>
       \/ /\ \A a, b \in DOMAIN images' :
               (a # b /\ RecordPath(images', a) = RecordPath(images', b)) =>
                   "custom_filename" \in
                       DOMAIN images'[a] \cup DOMAIN images'[b]
          /\ (/\ SaveStarted(last')
              /\ Has(last'.effects, "write")
              /\ Absolute(last'.detail.image_path) \in DOMAIN files) =>
                 "custom_filename" \in DOMAIN images'[last'.detail.image_id]]_vars

\* C11 witness: a second save without a custom_filename has just written its
\* file, and the file of the first such save is still there at another path
C11_Witness ==
    /\ last.op = "save-image"
    /\ last.end = "await"
    /\ \E a, b \in DOMAIN images :
           /\ a # b
           /\ b = last.detail.image_id
           /\ "custom_filename" \notin DOMAIN images[a] \cup DOMAIN images[b]
           /\ RecordPath(images, a) \in DOMAIN files
           /\ RecordPath(images, b) \in DOMAIN files
           /\ RecordPath(images, a) # RecordPath(images, b)

\* the record under the call's id is the one the call built: its id, its
\* prompt and URL, its custom_filename exactly when it gave one, and its
\* custom_directory exactly when it gave one that could be made
OwnRecord(table, arguments, detail, effects) ==
    /\ detail.image_id \in DOMAIN table
    /\ LET metadata == table[detail.image_id] IN
       /\ metadata.id = detail.image_id
       /\ metadata.prompt = arguments["prompt"]
       /\ metadata.url = arguments["image_url"]
       /\ "custom_filename" \in DOMAIN metadata <=>
              NonEmpty(arguments, "custom_filename")
       /\ "custom_filename" \in DOMAIN metadata =>
              metadata.custom_filename = arguments["custom_filename"]
       /\ "custom_directory" \in DOMAIN metadata <=>
              NonEmpty(arguments, "target_directory") /\ Has(effects, "mkdir")
       /\ "custom_directory" \in DOMAIN metadata =>
              metadata.custom_directory =
                  Absolute(arguments["target_directory"])

\* C12: save-image calls that interleave at the await lose no update of the
\* table: the table holds one record per call that passed validation, a step
\* never changes or drops a record that is there, every suspended call and
\* every call that returns finds under its own id the record it built, the
\* suspended calls have different ids, and resuming a call leaves the table
\* alone.
C12_NoLostUpdate ==
    [][\/ UNCHANGED <<images, suspended, drawn>>
       \/ /\ Cardinality(DOMAIN images') = drawn'
          /\ \A id \in DOMAIN images :
                 id \in DOMAIN images' /\ images'[id] = images[id]
          /\ \A h \in suspended' :
                 OwnRecord(images', h.arguments, h.detail, h.effects)
          /\ \A g, h \in suspended' :
                 g # h => g.detail.image_id # h.detail.image_id
          /\ (last'.op = "save-image" /\ WellFormedSave(last'.input)) =>
                 OwnRecord(images', last'.input, last'.detail, last'.effects)
          /\ SaveResumed(last') => images' = images]_vars

\* C12 witness: the call that drew the first id returns after a call with
\* other arguments started, wrote its file, waited and returned in between;
\* both records are in the table
C12_Witness ==
    /\ SaveResumed(last)
    /\ suspended = {}
    /\ last.detail.image_id = Uuid4(1)
    /\ Uuid4(2) \in DOMAIN images
    /\ images[Uuid4(2)].prompt # images[Uuid4(1)].prompt
    /\ RecordPath(images, Uuid4(2)) \in DOMAIN files
    /\ RecordPath(images, Uuid4(2)) # RecordPath(images, Uuid4(1))

====
